---- MODULE Spec2Model ----
(***************************************************************************)
(* Model of server.py (video personalization server).                      *)
(*                                                                         *)
(*   Spec     one /api/generate-video request: validation, template        *)
(*            download, add_qr_to_video (frame loop, card geometry,        *)
(*            QR paste), upload, temp-file cleanup, response.              *)
(*   SpecUtm  append_utm_params applied once and twice to a query string.  *)
(*                                                                         *)
(* A frame is a record [idx, card]: idx identifies the decoded picture,    *)
(* card is <<>> for untouched pixels and <<x, y>> once the card has been   *)
(* blended in at container position (x, y).  "written" is the sequence of  *)
(* frames handed to out.write, in call order.                              *)
(***************************************************************************)
EXTENDS Integers, Sequences, FiniteSets

VARIABLES
    cfg,            \* the request and its environment (never changes)
    pc,             \* position in generate_video / add_qr_to_video
    frame_count,    \* add_qr_to_video's frame_count
    read_log,       \* frames returned by cap.read(), in order
    written,        \* frames passed to out.write(), in order
    last_card,      \* container position computed for the latest active frame
    out_created,    \* cv2.VideoWriter(output_path, ...) has been constructed
    out_file,       \* the output file on disk: "absent", "partial", "complete"
    tmp_file,       \* /tmp/template_<video_id>.mp4: "absent", "present", "removed"
    remove_attempted, \* os.remove(template_local_path) has been called
    call_result,    \* add_qr_to_video: "none", "running", "returned", "raised"
    error,          \* the exception that ended the request, "" if none
    response,       \* HTTP status of the answer, 0 while unanswered
    url,            \* query string handed to append_utm_params
    tracked,        \* append_utm_params(url)
    tracked2,       \* append_utm_params(append_utm_params(url))
    utm_pc          \* position of the SpecUtm run

vars == <<cfg, pc, frame_count, read_log, written, last_card, out_created,
          out_file, tmp_file, remove_attempted, call_result, error, response,
          url, tracked, tracked2, utm_pc>>

videoVars == <<cfg, pc, frame_count, read_log, written, last_card, out_created,
               out_file, tmp_file, remove_attempted, call_result, error, response>>

utmVars == <<url, tracked, tracked2, utm_pc>>

(***************************************************************************)
(* Bounds of the model.                                                    *)
(***************************************************************************)
MaxFrames == 26        \* length of the short source videos
ScenarioFrames == 152  \* length of the long source video (reaches frame 150)
MaxStart == 2          \* qr_start_frame ranges over 0..MaxStart
MaxDuration == 24      \* qr_duration_frames ranges over -1..MaxDuration
MaxParams == 3         \* query strings of at most this many "&"-separated pieces

(***************************************************************************)
(* Layout constants of add_qr_to_video.                                    *)
(***************************************************************************)
container_padding == 12
label_height == 70
margin == 15
qr_top_offset == 58

Min(a, b) == IF a < b THEN a ELSE b
Max(a, b) == IF a > b THEN a ELSE b
Abs(a) == IF a < 0 THEN -a ELSE a

\* int(min(width, height) * 0.18): the float product truncated.
qr_display_size(width, height) == (18 * Min(width, height)) \div 100

container_width(width, height) == qr_display_size(width, height) + (container_padding * 2)

container_height(width, height) == qr_display_size(width, height) + label_height

base_container_x(width, height) == width - container_width(width, height) - margin

\* Python's // rounds toward minus infinity, as \div does.
base_container_y(width, height) == (height - container_height(width, height)) \div 2

y_range(width, height) == height - container_height(width, height) - (margin * 2)

(***************************************************************************)
(* math.sin, in 2^-28 fixed point with outward-rounded intervals <<lo,hi>>. *)
(* Every product is split in 14-bit halves so that it stays in 32 bits.    *)
(***************************************************************************)
FIX == 2^28
HALFW == 2^14

\* floor(math.pi / 2 * 2^28)
PI_HALF_FIX == 421657428

\* A lower bound of p*q/2^28 that is less than 2 below it (0 <= p, q < 2^29).
mulfix_lo(p, q) ==
    LET p1 == p \div HALFW
        p0 == p % HALFW
        q1 == q \div HALFW
        q0 == q % HALFW
    IN  (p1 * q1) + (((p1 * q0) + (p0 * q1)) \div HALFW)

mul_iv(a, b) == <<mulfix_lo(a[1], b[1]), mulfix_lo(a[2], b[2]) + 2>>

one_minus(u) == <<Max(0, FIX - u[2]), FIX - u[1]>>

div_iv(u, n) == <<u[1] \div n, (u[2] \div n) + 1>>

\* floor(P * a / D) without forming P * a.
muldiv(P, a, D) == ((P \div D) * a) + (((P % D) * a) \div D)

\* The angle (pi/2) * (a/D), 0 <= a <= D.
angle_iv(a, D) == <<muldiv(PI_HALF_FIX, a, D), muldiv(PI_HALF_FIX + 1, a, D) + 1>>

\* Horner evaluation of the alternating Taylor series: 1 - x2/d1 * (1 - x2/d2 * (...)).
RECURSIVE horner(_, _, _)
horner(x2, dens, acc) ==
    IF dens = <<>> THEN acc
    ELSE horner(x2, Tail(dens), one_minus(div_iv(mul_iv(x2, acc), Head(dens))))

widen(r) == <<Max(0, r[1] - 1), Min(FIX, r[2] + 1)>>

\* sin x = x (1 - x^2/6 (1 - x^2/20 (1 - x^2/42 (1 - x^2/72 (1 - x^2/110))))), x <= pi/4
sin_series(a, D) ==
    LET x  == angle_iv(a, D)
        x2 == mul_iv(x, x)
    IN  widen(mul_iv(x, horner(x2, <<110, 72, 42, 20, 6>>, <<FIX, FIX>>)))

\* cos x = 1 - x^2/2 (1 - x^2/12 (1 - x^2/30 (1 - x^2/56 (1 - x^2/90 (1 - x^2/132)))))
cos_series(a, D) ==
    LET x  == angle_iv(a, D)
        x2 == mul_iv(x, x)
    IN  widen(horner(x2, <<132, 90, 56, 30, 12, 2>>, <<FIX, FIX>>))

\* sin((pi/2) * (a/D)) for 0 < a < D.
sin_quarter(a, D) == IF 2 * a <= D THEN sin_series(a, D) ELSE cos_series(D - a, D)

\* floor(v * R / 2^29) for 0 <= v <= 2^29, 0 <= R < 2^14: int(v * R / 2) in fixed point.
scale_floor(v, R) ==
    LET v1 == v \div HALFW
        v0 == v % HALFW
    IN  ((v1 * R) + ((v0 * R) \div HALFW)) \div (2 * HALFW)

\* progress * 4 * pi as a fraction of a full turn: numerator over duration_frames.
turn_num_one_cycle(k, D) == k % D

turn_num(k, D) == (2 * k) % D

(***************************************************************************)
(* offset_y = int((math.sin(angle) + 1) * y_range / 2), where              *)
(* progress = k / float(D) and angle = progress * math.pi * 4: the set of   *)
(* values the float computation can give, for D # 0 and 0 <= k <= 2*|D|    *)
(* (the loop only reaches 0 <= k < D).                                     *)
(*  - On the axes the float value is known exactly.  sin(0.0) = 0.0; when  *)
(*    the angle is a positive multiple of 2*fl(pi) < 2*pi, sin < 0 and     *)
(*    sin + 1 rounds to 1 - 2^-52; at the odd multiples of fl(pi), sin > 0 *)
(*    and sin + 1 rounds above 1; at the extrema sin rounds to +1.0 or     *)
(*    -1.0.  A negative D negates the angle and with it the sine.          *)
(*  - Elsewhere the value is int() of the real number unless that number   *)
(*    is an integer (sin = +-1/2 with y_range a multiple of 4), where the  *)
(*    last bit of the float decides and both neighbours are admitted.      *)
(* int() truncates toward zero, so a negative y_range mirrors the result.  *)
(***************************************************************************)
offset_y_set(k, D, R) ==
    LET flip == D < 0
        d    == Abs(D)
        n    == turn_num(k, d)
        q    == (4 * n) \div d
        m    == (4 * n) % d
        mag  == Abs(R)
        sg   == IF R < 0 THEN -1 ELSE 1
        half == mag \div 2
        below == IF flip THEN q = 2 ELSE (q = 0 /\ k # 0)
        neg  == (q \in {2, 3}) # flip
        s    == IF q \in {0, 2} THEN sin_quarter(m, d) ELSE sin_quarter(d - m, d)
        v    == IF neg THEN <<FIX - s[2], FIX - s[1]>>
                       ELSE <<FIX + s[1], FIX + s[2]>>
    IN  IF m = 0
        THEN CASE q = 1 -> IF flip THEN {0} ELSE {R}
               [] q = 3 -> IF flip THEN {R} ELSE {0}
               [] OTHER -> IF below /\ mag % 2 = 0 /\ mag > 0
                           THEN {sg * (half - 1)}
                           ELSE {sg * half}
        ELSE {sg * scale_floor(v[1], mag), sg * scale_floor(v[2], mag)}

(***************************************************************************)
(* append_utm_params.  A query string is a sequence of symbols: words of   *)
(* unreserved characters ("utm_source", "x", ...), the separators "=" and  *)
(* "&", and the escapes "+" and "%26", "%3D".  A decoded name or value is  *)
(* a sequence of words, " ", "&" and "=".                                  *)
(***************************************************************************)

\* q.split(sep): the pieces of q between separators.
RECURSIVE split(_, _)
split(q, sep) ==
    IF q = <<>> THEN << <<>> >>
    ELSE LET rest == split(Tail(q), sep)
         IN  IF Head(q) = sep
             THEN << <<>> >> \o rest
             ELSE << <<Head(q)>> \o Head(rest) >> \o Tail(rest)

\* Index of the first "=" of a piece, 0 if it has none.
first_eq(piece) ==
    IF \E i \in 1..Len(piece) : piece[i] = "="
    THEN CHOOSE i \in 1..Len(piece) : piece[i] = "=" /\ \A j \in 1..(i - 1) : piece[j] # "="
    ELSE 0

\* unquote(s.replace('+', ' '))
unquote_plus(s) ==
    [i \in 1..Len(s) |->
        CASE s[i] = "+"   -> " "
          [] s[i] = "%26" -> "&"
          [] s[i] = "%3D" -> "="
          [] OTHER        -> s[i]]

\* quote_plus(s)
quote_plus(s) ==
    [i \in 1..Len(s) |->
        CASE s[i] = " " -> "+"
          [] s[i] = "&" -> "%26"
          [] s[i] = "=" -> "%3D"
          [] OTHER      -> s[i]]

\* d[name].append(value) / d[name] = [value] on an insertion-ordered dict.
dict_add(d, name, value) ==
    IF \E i \in 1..Len(d) : d[i].key = name
    THEN [i \in 1..Len(d) |->
            IF d[i].key = name THEN [d[i] EXCEPT !.vals = Append(@, value)] ELSE d[i]]
    ELSE Append(d, [key |-> name, vals |-> <<value>>])

dict_has(d, name) == \E i \in 1..Len(d) : d[i].key = name

\* parse_qs(query): pieces without "=" and pieces with an empty value are skipped.
RECURSIVE parse_pieces(_, _)
parse_pieces(pieces, d) ==
    IF pieces = <<>> THEN d
    ELSE LET piece == Head(pieces)
             e     == first_eq(piece)
         IN  IF piece = <<>> \/ e = 0 \/ e = Len(piece)
             THEN parse_pieces(Tail(pieces), d)
             ELSE parse_pieces(Tail(pieces),
                      dict_add(d, unquote_plus(SubSeq(piece, 1, e - 1)),
                                  unquote_plus(SubSeq(piece, e + 1, Len(piece)))))

parse_qs(query) == parse_pieces(split(query, "&"), <<>>)

\* The "k=v" items of one dict entry, each followed by "&".
RECURSIVE encode_vals(_, _)
encode_vals(key, vals) ==
    IF vals = <<>> THEN <<>>
    ELSE quote_plus(key) \o <<"=">> \o quote_plus(Head(vals)) \o <<"&">>
         \o encode_vals(key, Tail(vals))

RECURSIVE encode_items(_)
encode_items(d) ==
    IF d = <<>> THEN <<>>
    ELSE encode_vals(Head(d).key, Head(d).vals) \o encode_items(Tail(d))

\* urlencode(d, doseq=True): the items joined by "&".
urlencode(d) ==
    LET items == encode_items(d)
    IN  IF items = <<>> THEN <<>> ELSE SubSeq(items, 1, Len(items) - 1)

\* The utm_params dict of line 219, in insertion order.
utm_params(practice_type, organization_id) ==
    << [key |-> <<"utm_source">>,   val |-> <<"cherry_video_generator">>],
       [key |-> <<"utm_medium">>,   val |-> <<"qr_code_cherry_video_generator">>],
       [key |-> <<"utm_campaign">>, val |-> <<"waiting_room_">> \o practice_type],
       [key |-> <<"utm_content">>,  val |-> organization_id] >>

\* for key, value in utm_params.items(): if key not in existing_params: ...
RECURSIVE add_missing(_, _)
add_missing(d, params) ==
    IF params = <<>> THEN d
    ELSE add_missing(
            IF dict_has(d, Head(params).key)
            THEN d
            ELSE Append(d, [key |-> Head(params).key, vals |-> <<Head(params).val>>]),
            Tail(params))

\* append_utm_params(url, practice_type, organization_id), on the query of the URL.
append_utm_params(query, practice_type, organization_id) ==
    urlencode(add_missing(parse_qs(query), utm_params(practice_type, organization_id)))

(***************************************************************************)
(* The query strings of the model: up to MaxParams pieces joined by "&".   *)
(***************************************************************************)
QueryKeys == {"utm_source", "utm_content", "ref"}

RawValues == {<<>>, <<"x">>, <<"+">>, <<"%26">>, <<"x", "=">>}

Pieces == {<<>>} \cup {<<k>> : k \in QueryKeys}
          \cup {<<k, "=">> \o v : k \in QueryKeys, v \in RawValues}

RECURSIVE join(_)
join(ps) ==
    IF ps = <<>> THEN <<>>
    ELSE IF Len(ps) = 1 THEN Head(ps)
    ELSE Head(ps) \o <<"&">> \o join(Tail(ps))

Queries == {join(ps) : ps \in UNION {[1..n -> Pieces] : n \in 0..MaxParams}}

OrganizationIds == {<<"org1">>, <<>>}

Requests == [query : Queries, practice_type : {<<"dental_30sec">>},
             organization_id : OrganizationIds]

IdleRequest == [query |-> <<>>, practice_type |-> <<"dental_30sec">>,
                organization_id |-> <<"org1">>]

(***************************************************************************)
(* Frames and the card.                                                    *)
(***************************************************************************)
NoCard == <<>>

\* The i-th picture of the source, as cap.read() returns it.
Frame(i) == [idx |-> i, card |-> NoCard]

\* overlay drawn at (x, y) and blended: frame = cv2.addWeighted(overlay, 0.95, frame, 0.05, 0)
Composite(frame, x, y) == [frame EXCEPT !.card = <<x, y>>]

\* Length of the numpy slice [start:stop] of an axis of n elements.
slice_len(start, stop, n) ==
    LET norm(i) == IF i < 0 THEN Max(i + n, 0) ELSE Min(i, n)
    IN  Max(0, norm(stop) - norm(start))

\* overlay[qr_y:qr_y+s, qr_x:qr_x+s] = qr_resized succeeds when the slice has the
\* shape of qr_resized (an s = 1 source broadcasts to any slice), else ValueError.
paste_ok(x, y, width, height) ==
    LET s    == qr_display_size(width, height)
        qr_x == x + ((container_width(width, height) - s) \div 2)
        qr_y == y + qr_top_offset
        rows == slice_len(qr_y, qr_y + s, height)
        cols == slice_len(qr_x, qr_x + s, width)
    IN  s = 1 \/ (rows = s /\ cols = s)

(***************************************************************************)
(* The requests of the model.                                              *)
(***************************************************************************)
Sizes == {<<1920, 1080>>, <<320, 240>>, <<200, 200>>, <<160, 120>>,
          <<160, 80>>, <<64, 40>>, <<40, 160>>, <<5, 5>>}

FaultSizes == {<<1920, 1080>>, <<320, 240>>}

RequestFaults == {"bad_request", "invalid_type", "missing_template", "download_fail",
                  "writer_nofile", "writer_partial", "upload_fail"}

Config(f, sz, n, st, hd, d, fl) ==
    [fault |-> f, width |-> sz[1], height |-> sz[2], nframes |-> n,
     start_frame |-> st, has_duration |-> hd, duration_frames |-> d, floating |-> fl]

ShortRuns ==
    {Config(f, sz, MaxFrames, st, TRUE, d, fl) :
        f \in {"none", "src_unreadable"}, sz \in Sizes, st \in 0..MaxStart,
        d \in (-1)..MaxDuration, fl \in BOOLEAN}

LongRuns ==
    {Config("none", sz, ScenarioFrames, 0, TRUE, 300, fl) : sz \in Sizes, fl \in BOOLEAN}

DefaultRuns ==
    {Config("none", sz, n, st, FALSE, 0, fl) :
        sz \in FaultSizes, n \in {0, 1, 3}, st \in 0..1, fl \in BOOLEAN}

FaultRuns ==
    {Config(f, sz, 3, 0, TRUE, d, fl) :
        f \in RequestFaults, sz \in FaultSizes, d \in {0, 2}, fl \in BOOLEAN}

Configs == ShortRuns \cup LongRuns \cup DefaultRuns \cup FaultRuns

\* total_frames = int(cap.get(cv2.CAP_PROP_FRAME_COUNT))
total_frames(c) == c.nframes

\* start_frame = template_info.get('qr_start_frame', 0)
start_frame(c) == c.start_frame

\* duration_frames = template_info.get('qr_duration_frames', total_frames)
duration_frames(c) == IF c.has_duration THEN c.duration_frames ELSE total_frames(c)

writer_ok(c) == c.fault \notin {"writer_nofile", "writer_partial"}

\* The overlay condition of line 304 without its upper bound.
active_no_upper(c, fc) == fc >= start_frame(c)

\* frame_count >= start_frame and frame_count < (start_frame + duration_frames)
active(c, fc) == fc >= start_frame(c) /\ fc < (start_frame(c) + duration_frames(c))

\* The floating condition of line 292 without its upper bound.
float_branch_no_upper(c, fc) == c.floating /\ fc >= start_frame(c)

\* floating and frame_count >= start_frame and frame_count < (start_frame + duration_frames)
float_branch(c, fc) ==
    c.floating /\ fc >= start_frame(c) /\ fc < (start_frame(c) + duration_frames(c))

\* (container_x, container_y) of lines 292-302: the positions the frame can get.
positions(c, fc) ==
    IF float_branch(c, fc)
    THEN {<<base_container_x(c.width, c.height), margin + o>> :
            o \in offset_y_set(fc - start_frame(c), duration_frames(c),
                               y_range(c.width, c.height))}
    ELSE {<<base_container_x(c.width, c.height), base_container_y(c.width, c.height)>>}

\* out.write(frame) indented under the overlay block: inactive frames are dropped.
frames_to_write_active_only(frame, act) == IF act THEN <<frame>> ELSE <<>>

\* out.write(frame): every iteration hands its frame to the writer once.
frames_to_write(frame, act) == <<frame>>

\* The writer constructed before the source is checked.
open_result_writer_first(c) ==
    [raised |-> c.fault = "src_unreadable" \/ qr_display_size(c.width, c.height) = 0,
     error |-> IF c.fault = "src_unreadable" THEN "unreadable" ELSE "resize",
     out_created |-> TRUE,
     out_file |-> IF c.fault = "writer_nofile" THEN "absent" ELSE "partial"]

\* Lines 256-285: open the source, construct the writer, resize the QR image.
open_result(c) ==
    IF c.fault = "src_unreadable"
    THEN [raised |-> TRUE, error |-> "unreadable", out_created |-> FALSE,
          out_file |-> "absent"]
    ELSE [raised |-> qr_display_size(c.width, c.height) = 0,
          error |-> "resize",
          out_created |-> TRUE,
          out_file |-> IF c.fault = "writer_nofile" THEN "absent" ELSE "partial"]

(***************************************************************************)
(* Initial state: a request has arrived, nothing has been done.            *)
(***************************************************************************)
Init ==
    /\ cfg \in Configs
    /\ pc = "validate"
    /\ frame_count = 0
    /\ read_log = <<>>
    /\ written = <<>>
    /\ last_card = NoCard
    /\ out_created = FALSE
    /\ out_file = "absent"
    /\ tmp_file = "absent"
    /\ remove_attempted = FALSE
    /\ call_result = "none"
    /\ error = ""
    /\ response = 0
    /\ url = IdleRequest
    /\ tracked = <<>>
    /\ tracked2 = <<>>
    /\ utm_pc = "idle"

\* An exception propagates to generate_video's except clause.
Raise(e) == error' = e /\ pc' = "except"

\* Lines 394-418: validation of the request and the template's existence.
Validate ==
    /\ pc = "validate"
    /\ CASE cfg.fault \in {"bad_request", "invalid_type"} ->
              response' = 400 /\ pc' = "done"
         [] cfg.fault = "missing_template" ->
              response' = 404 /\ pc' = "done"
         [] OTHER ->
              response' = response /\ pc' = "download"
    /\ UNCHANGED <<cfg, frame_count, read_log, written, last_card, out_created,
                   out_file, tmp_file, remove_attempted, call_result, error>>
    /\ UNCHANGED utmVars

\* Lines 420-431: download_from_r2 into /tmp/template_<video_id>.mp4.
Download ==
    /\ pc = "download"
    /\ IF cfg.fault = "download_fail"
       THEN Raise("download") /\ tmp_file' = tmp_file /\ tracked' = tracked
       ELSE /\ pc' = "open" /\ tmp_file' = "present" /\ error' = error
            /\ tracked' = append_utm_params(url.query, url.practice_type,
                                            url.organization_id)
    /\ UNCHANGED <<cfg, frame_count, read_log, written, last_card, out_created,
                   out_file, remove_attempted, call_result, response>>
    /\ UNCHANGED <<url, tracked2, utm_pc>>

\* Lines 254-285 of add_qr_to_video.
AddQrOpen ==
    /\ pc = "open"
    /\ LET r == open_result(cfg)
       IN  /\ out_created' = r.out_created
           /\ out_file' = r.out_file
           /\ IF r.raised
              THEN Raise(r.error) /\ call_result' = "raised"
              ELSE pc' = "loop" /\ call_result' = "running" /\ error' = error
    /\ frame_count' = 0
    /\ UNCHANGED <<cfg, read_log, written, last_card, tmp_file, remove_attempted, response>>
    /\ UNCHANGED utmVars

\* Lines 287-342: one iteration of the frame loop whose cap.read() succeeds.
LoopStep ==
    /\ pc = "loop"
    /\ frame_count < cfg.nframes
    /\ LET frame == Frame(frame_count)
           act   == active(cfg, frame_count)
       IN  /\ read_log' = Append(read_log, frame)
           /\ IF float_branch(cfg, frame_count) /\ duration_frames(cfg) = 0
              THEN /\ Raise("zero_division")
                   /\ call_result' = "raised"
                   /\ UNCHANGED <<frame_count, written, last_card>>
              ELSE \E pos \in positions(cfg, frame_count) :
                     IF ~act
                     THEN /\ written' = written \o frames_to_write(frame, act)
                          /\ frame_count' = frame_count + 1
                          /\ UNCHANGED <<pc, error, call_result, last_card>>
                     ELSE /\ last_card' = pos
                          /\ IF paste_ok(pos[1], pos[2], cfg.width, cfg.height)
                             THEN /\ written' = written \o
                                        frames_to_write(Composite(frame, pos[1], pos[2]), act)
                                  /\ frame_count' = frame_count + 1
                                  /\ UNCHANGED <<pc, error, call_result>>
                             ELSE /\ Raise("paste")
                                  /\ call_result' = "raised"
                                  /\ UNCHANGED <<frame_count, written>>
    /\ UNCHANGED <<cfg, out_created, out_file, tmp_file, remove_attempted, response>>
    /\ UNCHANGED utmVars

\* Lines 287-290 and 344-353: cap.read() fails, the loop ends, both streams are
\* released and the result is returned.
AddQrReturn ==
    /\ pc = "loop"
    /\ frame_count = cfg.nframes
    /\ call_result' = "returned"
    /\ out_file' = IF writer_ok(cfg) THEN "complete" ELSE out_file
    /\ pc' = "upload"
    /\ UNCHANGED <<cfg, frame_count, read_log, written, last_card, out_created,
                   tmp_file, remove_attempted, error, response>>
    /\ UNCHANGED utmVars

\* Lines 440-441: upload_to_r2(output_local_path, output_r2_key).
Upload ==
    /\ pc = "upload"
    /\ IF out_file = "absent" \/ cfg.fault = "upload_fail"
       THEN Raise("upload")
       ELSE pc' = "cleanup" /\ error' = error
    /\ UNCHANGED <<cfg, frame_count, read_log, written, last_card, out_created,
                   out_file, tmp_file, remove_attempted, call_result, response>>
    /\ UNCHANGED utmVars

\* Lines 443-446: os.remove(template_local_path), failures ignored.
Cleanup ==
    /\ pc = "cleanup"
    /\ remove_attempted' = TRUE
    /\ tmp_file' \in {"removed", "present"}
    /\ pc' = "respond"
    /\ UNCHANGED <<cfg, frame_count, read_log, written, last_card, out_created,
                   out_file, call_result, error, response>>
    /\ UNCHANGED utmVars

\* Lines 448-466: the success answer.
Respond ==
    /\ pc = "respond"
    /\ response' = 200
    /\ pc' = "done"
    /\ UNCHANGED <<cfg, frame_count, read_log, written, last_card, out_created,
                   out_file, tmp_file, remove_attempted, call_result, error>>
    /\ UNCHANGED utmVars

\* Lines 468-472: any exception is answered with a server error.
Except ==
    /\ pc = "except"
    /\ response' = 500
    /\ pc' = "done"
    /\ UNCHANGED <<cfg, frame_count, read_log, written, last_card, out_created,
                   out_file, tmp_file, remove_attempted, call_result, error>>
    /\ UNCHANGED utmVars

Next ==
    \/ Validate
    \/ Download
    \/ AddQrOpen
    \/ LoopStep
    \/ AddQrReturn
    \/ Upload
    \/ Cleanup
    \/ Respond
    \/ Except

Spec == Init /\ [][Next]_vars

(***************************************************************************)
(* append_utm_params on its own: applied to a URL, then to its own result. *)
(***************************************************************************)
InitUtm ==
    /\ cfg = Config("none", <<320, 240>>, 0, 0, TRUE, 0, FALSE)
    /\ pc = "idle"
    /\ frame_count = 0
    /\ read_log = <<>>
    /\ written = <<>>
    /\ last_card = NoCard
    /\ out_created = FALSE
    /\ out_file = "absent"
    /\ tmp_file = "absent"
    /\ remove_attempted = FALSE
    /\ call_result = "none"
    /\ error = ""
    /\ response = 0
    /\ url \in Requests
    /\ tracked = <<>>
    /\ tracked2 = <<>>
    /\ utm_pc = "start"

ApplyOnce ==
    /\ utm_pc = "start"
    /\ tracked' = append_utm_params(url.query, url.practice_type, url.organization_id)
    /\ utm_pc' = "once"
    /\ UNCHANGED <<url, tracked2>>
    /\ UNCHANGED videoVars

ApplyTwice ==
    /\ utm_pc = "once"
    /\ tracked2' = append_utm_params(tracked, url.practice_type, url.organization_id)
    /\ utm_pc' = "twice"
    /\ UNCHANGED <<url, tracked>>
    /\ UNCHANGED videoVars

NextUtm ==
    \/ ApplyOnce
    \/ ApplyTwice

SpecUtm == InitUtm /\ [][NextUtm]_vars

(***************************************************************************)
(* Properties.                                                             *)
(***************************************************************************)

\* The half-open QR window [start_frame, start_frame + duration_frames).
InWindow(i) ==
    start_frame(cfg) <= i /\ i < start_frame(cfg) + duration_frames(cfg)

CardX(f) == f.card[1]
CardY(f) == f.card[2]

\* C1: in static and in floating mode, every frame whose 0-based index lies
\* outside [qr_start_frame, qr_start_frame + qr_duration_frames) is handed to
\* the writer exactly as it was read from the source.
C1_InactiveFramesUntouched ==
    \A i \in 1..Len(written) :
        ~InWindow(read_log[i].idx) => written[i] = read_log[i]

\* A floating run that has written frames before, inside and after the window.
C1_Witness ==
    /\ cfg.floating
    /\ call_result = "returned"
    /\ \E i, j, k \in 1..Len(written) :
          /\ i < j /\ j < k
          /\ ~InWindow(read_log[i].idx) /\ written[i].card = NoCard
          /\ InWindow(read_log[j].idx) /\ written[j].card # NoCard
          /\ ~InWindow(read_log[k].idx) /\ written[k].card = NoCard

\* C2: when add_qr_to_video returns, as many frames were written as were read,
\* the i-th written frame comes from the i-th read frame, and the frames were
\* written in increasing index order from 0, each exactly once.
C2_OrderAndCountPreserved ==
    call_result = "returned" =>
        /\ Len(written) = Len(read_log)
        /\ \A i \in 1..Len(written) :
              /\ written[i].idx = read_log[i].idx
              /\ written[i].idx = i - 1

\* A returned run over a full video that mixes active and inactive frames.
C2_Witness ==
    /\ call_result = "returned"
    /\ Len(read_log) = MaxFrames
    /\ Len(written) = MaxFrames
    /\ \E i, j \in 1..Len(written) : written[i].card = NoCard /\ written[j].card # NoCard

\* C3: with qr_duration_frames <= 0 no frame is active: every written frame
\* equals the frame read, no card position is ever computed for an overlay,
\* and the division by the window duration is never evaluated.
C3_NonPositiveDurationInactive ==
    duration_frames(cfg) <= 0 =>
        /\ error # "zero_division"
        /\ last_card = NoCard
        /\ \A i \in 1..Len(written) : written[i] = read_log[i]

\* A floating run with a zero-length window that went past the window start.
C3_Witness ==
    /\ duration_frames(cfg) = 0
    /\ cfg.floating
    /\ call_result = "returned"
    /\ Len(written) > start_frame(cfg) + 1

\* The card rectangle and the pasted QR region lie inside the frame buffer.
CardInFrame(pos, width, height) ==
    LET s    == qr_display_size(width, height)
        qr_x == pos[1] + ((container_width(width, height) - s) \div 2)
        qr_y == pos[2] + qr_top_offset
    IN  /\ 0 <= pos[1] /\ 0 <= pos[2]
        /\ pos[1] + container_width(width, height) <= width
        /\ pos[2] + container_height(width, height) <= height
        /\ 0 <= qr_x /\ qr_x + s <= width
        /\ 0 <= qr_y /\ qr_y + s <= height

\* C4: for every frame size, every active frame and both modes, the card
\* rectangle and the embedded QR region lie inside the frame, and the paste
\* never fails.
C4_CardClampedToFrame ==
    /\ last_card # NoCard => CardInFrame(last_card, cfg.width, cfg.height)
    /\ error # "paste"

\* C5: an unreadable source makes add_qr_to_video raise before the writer is
\* constructed: no output file exists, no frame is read or written, and the
\* request does not succeed.
C5_UnreadableSourceFailsFirst ==
    cfg.fault = "src_unreadable" =>
        /\ ~out_created
        /\ out_file = "absent"
        /\ read_log = <<>>
        /\ written = <<>>
        /\ call_result \in {"none", "raised"}
        /\ (call_result = "raised" => error = "unreadable")
        /\ response \in {0, 500}

\* The request with the unreadable source has been answered.
C5_Witness ==
    /\ cfg.fault = "src_unreadable"
    /\ call_result = "raised"
    /\ response = 500

\* C6: when the output stream cannot be opened or written, the compositing
\* call does not return a result, the request is answered with a server
\* error, and no partial output file is left once it is answered.
C6_EncodingFailureAborts ==
    ~writer_ok(cfg) =>
        /\ call_result # "returned"
        /\ response \in {0, 500}
        /\ (response # 0 => out_file # "partial")

\* Two written frames half a window apart, in a floating run with an even window.
HalfWindowApart(i, j) ==
    /\ cfg.floating
    /\ duration_frames(cfg) > 0
    /\ duration_frames(cfg) % 2 = 0
    /\ InWindow(written[i].idx)
    /\ written[i].idx < start_frame(cfg) + (duration_frames(cfg) \div 2)
    /\ written[j].idx = written[i].idx + (duration_frames(cfg) \div 2)

\* C7 as stated: in floating mode over an even window of D frames the frames
\* start+k and start+k+D/2 have the same y, and x is the base position.
C7_ExactHalfWindowPeriod ==
    \A i, j \in 1..Len(written) :
        HalfWindowApart(i, j) =>
            /\ CardY(written[i]) = CardY(written[j])
            /\ CardX(written[i]) = base_container_x(cfg.width, cfg.height)
            /\ CardX(written[j]) = base_container_x(cfg.width, cfg.height)

\* C7 amended: in floating mode over an even window of D frames the frames
\* start+k and start+k+D/2 have y positions at most one pixel apart, and x is
\* the base position on both.
C7_HalfWindowPeriodWithinOnePixel ==
    \A i, j \in 1..Len(written) :
        HalfWindowApart(i, j) =>
            /\ Abs(CardY(written[i]) - CardY(written[j])) <= 1
            /\ CardX(written[i]) = base_container_x(cfg.width, cfg.height)
            /\ CardX(written[j]) = base_container_x(cfg.width, cfg.height)

\* The window start and the mid-window frame are written one pixel apart, and
\* a pair inside the two half windows is written too.
C7_Witness ==
    /\ \E i, j \in 1..Len(written) :
          /\ HalfWindowApart(i, j)
          /\ written[i].idx = start_frame(cfg)
          /\ Abs(CardY(written[i]) - CardY(written[j])) = 1
    /\ \E i, j \in 1..Len(written) :
          /\ HalfWindowApart(i, j)
          /\ written[i].idx > start_frame(cfg)
          /\ CardY(written[i]) # base_container_y(cfg.width, cfg.height)

\* The floating run over the window [0, 300) has written frames 0, 75 and 150.
Scenario300 ==
    /\ cfg.floating
    /\ start_frame(cfg) = 0
    /\ duration_frames(cfg) = 300
    /\ Len(written) >= 151

\* offset_y of the i-th written frame: container_y = margin + offset_y.
OffsetOf(i) == CardY(written[i]) - margin

\* Within a quarter of the span from the top of the range [0, y_range].
NearMaximum(off, R) == Abs(R - off) * 4 <= Abs(R)

\* C8 as stated: frame 75 is near the maximum of offset_y's range and frames 0
\* and 150 have the same offset_y.
C8_QuarterProgressAtMaximum ==
    Scenario300 =>
        /\ NearMaximum(OffsetOf(76), y_range(cfg.width, cfg.height))
        /\ OffsetOf(1) = OffsetOf(151)

\* C8 amended: frame 75 (angle pi) has the offset_y of frame 0, the midpoint
\* y_range / 2 of the range truncated to a pixel, and frame 150 lies within
\* one pixel of frame 0.
C8_QuarterProgressAtMidpoint ==
    Scenario300 =>
        /\ OffsetOf(76) = OffsetOf(1)
        /\ Abs((2 * OffsetOf(76)) - y_range(cfg.width, cfg.height)) <= 1
        /\ Abs(OffsetOf(151) - OffsetOf(1)) <= 1

\* The scenario on a 1920x1080 source, where frame 150 is one pixel off frame 0.
C8_Witness ==
    /\ Scenario300
    /\ cfg.width = 1920 /\ cfg.height = 1080
    /\ OffsetOf(76) = 393
    /\ OffsetOf(151) = 392

\* The parameters of a query string read literally: every non-empty piece is a
\* parameter, its name what precedes the first "=" and its value the rest.
RECURSIVE literal_params(_, _)
literal_params(pieces, d) ==
    IF pieces = <<>> THEN d
    ELSE LET piece == Head(pieces)
             e     == first_eq(piece)
         IN  IF piece = <<>>
             THEN literal_params(Tail(pieces), d)
             ELSE IF e = 0
             THEN literal_params(Tail(pieces),
                      dict_add(d, unquote_plus(piece), <<>>))
             ELSE literal_params(Tail(pieces),
                      dict_add(d, unquote_plus(SubSeq(piece, 1, e - 1)),
                                  unquote_plus(SubSeq(piece, e + 1, Len(piece)))))

\* The values a query gives to a name, every non-empty piece read as a parameter.
ValuesOf(query, name) ==
    LET d == literal_params(split(query, "&"), <<>>)
    IN  IF dict_has(d, name)
        THEN (CHOOSE e \in {d[i] : i \in 1..Len(d)} : e.key = name).vals
        ELSE <<>>

NamesOf(query) ==
    LET d == literal_params(split(query, "&"), <<>>)
    IN  {d[i].key : i \in 1..Len(d)}

\* Applying append_utm_params to its own result changes nothing.
UtmIdempotent == utm_pc = "twice" => tracked2 = tracked

\* C9: append_utm_params is idempotent, and every parameter present in the
\* URL is carried by the result with its original values, neither duplicated
\* nor replaced.
C9_IdempotentAndNonOverriding ==
    /\ UtmIdempotent
    /\ utm_pc \in {"once", "twice"} =>
          \A name \in NamesOf(url.query) :
              ValuesOf(tracked, name) = ValuesOf(url.query, name)

\* C10: once a request that downloaded the template has been answered, with
\* success or with an error, a removal of the temporary file was attempted.
C10_TempTemplateRemovalAttempted ==
    (response # 0 /\ tmp_file # "absent") => remove_attempted

====
